---- MODULE Spec2Model ----
(***************************************************************************)
(* Model of autosidebar.py: a Sublime Text plugin that shows or hides the  *)
(* sidebar of a window from the window's views, folders, tab bar and       *)
(* settings.  The module-level list DEFERRED_WINDOWS and the module-level  *)
(* name SETTINGS are the plugin's own state; the windows (views, folders,  *)
(* tab bar, settings, project data, sidebar flag) are the host's state,    *)
(* which the plugin reads and, for the sidebar flag, writes.  The host     *)
(* dispatches callbacks one at a time, so every handler is one action.     *)
(* Nothing in the plugin orders on_init before the other callbacks or the  *)
(* commands, so the model lets the host dispatch them in any order.        *)
(***************************************************************************)
EXTENDS Integers, Sequences, FiniteSets, TLC

\* ---------------------------------------------------------------- bounds
MaxViews == 2
MaxFolders == 1
MaxQueue == 2

\* ------------------------------------------------------------ host values
Windows == {"w1", "w2"}
\* the environment of the model: the windows in which the host opens and
\* closes views, the windows whose tab bar the user hides and shows, the
\* windows that may have a project (folders and project data), and the
\* windows in which the user runs the two commands.  A window outside a set
\* stays as it starts: one view, tab bar visible, no project, no override.
ViewWindows == {"w1"}
TabWindows == {"w1"}
ProjectWindows == {"w1"}
CommandWindows == {"w1"}
\* the windows the user may close
CloseWindows == Windows
\* view.window() / buffer.window() of a view that has no window
None == "None"
OptWindows == Windows \cup {None}

\* a settings key: not stored, stored true, stored false
SettingValues == {"absent", "true", "false"}
\* the values the user gives sidebar_open_when_tabs_visible
PreferenceValues == {"absent", "true"}
\* window.project_data(): None or {} ("none"), or a dict in which the key
\* sidebar_auto_enabled is absent, true or false
ProjectValues == {"none", "absent", "true", "false"}

VARIABLES
    DEFERRED_WINDOWS,   \* the module-level list, a sequence of windows
    SETTINGS,           \* "undefined" until on_init binds the name; then
                        \* sidebar_open_when_tabs_visible in the loaded
                        \* Preferences, which follow the user's edits
    views,              \* len(window.views())
    folders,            \* len(window.folders())
    tabs_visible,       \* window.get_tabs_visible()
    window_settings,    \* sidebar_auto_enabled in window.settings()
    project_data,       \* window.project_data()
    sidebar_visible,    \* the flag window.set_sidebar_visible writes
    closed,             \* the windows the user has closed; the plugin has no
                        \* callback for it and keeps the handles it holds
    last                \* the step taken last: the kind of callback (op),
                        \* the windows it was given or, for a bare flush,
                        \* found queued (ws), whether it returned (ok) or
                        \* raised, and the number of policy evaluations
                        \* that returned during it (evals)

plugin == <<DEFERRED_WINDOWS, SETTINGS>>
host == <<views, folders, tabs_visible, window_settings, project_data, closed>>
vars == <<DEFERRED_WINDOWS, SETTINGS, views, folders, tabs_visible,
          window_settings, project_data, sidebar_visible, closed, last>>

\* ------------------------------------------------------------ host's API
\* settings.get(key, default) and dict.get(key, default)
SettingsGet(value, default) ==
    IF value = "absent" THEN default ELSE value = "true"

\* ------------------------------------------------------------ the policy
\* line 46: window.settings() is an object, always true; ws is the value of
\* sidebar_auto_enabled in the window's settings
DisabledInWindow(ws) == ~SettingsGet(ws, TRUE)

\* the project's sidebar_auto_enabled never read
DisabledInProject_Ignored(pd) == FALSE

\* line 50: None and {} are false; pd is the window's project data
DisabledInProject(pd) ==
    pd # "none" /\ ~SettingsGet(pd, TRUE)

\* line 54: the read of the module-level name SETTINGS raises NameError
\* while it is unbound; `or` evaluates it only when the tab bar is visible
SettingsReadRaises(w, st) == tabs_visible[w] /\ st = "undefined"

\* lines 54-56
open_due_views(w, st) ==
    ~tabs_visible[w] \/ SettingsGet(st, FALSE)

\* Decision with the view test off by one (len(window.views()) > 0)
Decision_OffByOne(w, st) ==
    (open_due_views(w, st) /\ views[w] > 0) \/ folders[w] > 0

\* lines 41, 58-62: the value of the local sidebar_visible at line 66
Decision(w, st) ==
    LET s0 == FALSE
        s1 == IF open_due_views(w, st) /\ views[w] > 1 THEN TRUE ELSE s0
        s2 == IF folders[w] > 0 THEN TRUE ELSE s1
    IN  s2

\* set_sidebar_visible as a toggle command that runs when the value is true
set_sidebar_visible_Toggles(w, sb, value) ==
    IF value THEN [sb EXCEPT ![w] = ~sb[w]] ELSE sb

\* window.set_sidebar_visible(value, animate=True) on the flags sb
set_sidebar_visible(w, sb, value) == [sb EXCEPT ![w] = value]

\* internal_apply_sidebar_status with the early returns hiding the sidebar
internal_apply_HidesWhenDisabled(w, sb, wset, st) ==
    IF DisabledInWindow(wset[w]) \/ DisabledInProject(project_data[w])
    THEN [sb |-> set_sidebar_visible(w, sb, FALSE), ok |-> TRUE]
    ELSE IF SettingsReadRaises(w, st) THEN [sb |-> sb, ok |-> FALSE]
    ELSE [sb |-> set_sidebar_visible(w, sb, Decision(w, st)), ok |-> TRUE]

\* internal_apply_sidebar_status(window) on the flags sb, with the windows'
\* settings wset and the module's SETTINGS st: the flags after the call, and
\* whether the call returned
internal_apply_sidebar_status(w, sb, wset, st) ==
    IF DisabledInWindow(wset[w]) THEN [sb |-> sb, ok |-> TRUE]
    ELSE IF DisabledInProject(project_data[w]) THEN [sb |-> sb, ok |-> TRUE]
    ELSE IF SettingsReadRaises(w, st) THEN [sb |-> sb, ok |-> FALSE]
    ELSE [sb |-> set_sidebar_visible(w, sb, Decision(w, st)), ok |-> TRUE]

\* ------------------------------------------------------------- the queue
\* add_deferred that skips a window already in the list
add_deferred_Dedup(w, q) ==
    IF w = None \/ w \in {q[i] : i \in DOMAIN q} THEN q ELSE Append(q, w)

\* add_deferred(window) on the list q
add_deferred(w, q) ==
    IF w = None THEN q ELSE Append(q, w)

\* DEFERRED_WINDOWS.pop(): the last element and the list without it
Pop(q) == [w |-> q[Len(q)], q |-> SubSeq(q, 1, Len(q) - 1)]

\* check_deferred with `if` for `while`: one pop, one evaluation
check_deferred_PopsOnce(q, sb, wset, st, n) ==
    IF ~(Len(q) > 0) THEN [q |-> q, sb |-> sb, ok |-> TRUE, evals |-> n]
    ELSE LET p == Pop(q)
             r == internal_apply_sidebar_status(p.w, sb, wset, st)
         IN  IF r.ok THEN [q |-> p.q, sb |-> r.sb, ok |-> TRUE, evals |-> n + 1]
             ELSE [q |-> p.q, sb |-> sb, ok |-> FALSE, evals |-> n]

\* check_deferred that empties the list without evaluating its windows
check_deferred_Clears(q, sb, wset, st, n) ==
    [q |-> <<>>, sb |-> sb, ok |-> TRUE, evals |-> n]

\* check_deferred that, when the window it pops is queued again further down,
\* drops those entries too and evaluates nothing for the window
RECURSIVE check_deferred_DropsRepeated(_, _, _, _, _)
check_deferred_DropsRepeated(q, sb, wset, st, n) ==
    IF ~(Len(q) > 0) THEN [q |-> q, sb |-> sb, ok |-> TRUE, evals |-> n]
    ELSE LET p == Pop(q)
             r == internal_apply_sidebar_status(p.w, sb, wset, st)
         IN  IF p.w \in {p.q[i] : i \in DOMAIN p.q}
             THEN check_deferred_DropsRepeated(SelectSeq(p.q, LAMBDA x : x # p.w),
                                               sb, wset, st, n)
             ELSE IF r.ok THEN check_deferred_DropsRepeated(p.q, r.sb, wset, st, n + 1)
             ELSE [q |-> p.q, sb |-> sb, ok |-> FALSE, evals |-> n]

\* check_deferred that leaves the entries of closed windows in the list
RECURSIVE check_deferred_SkipsClosed(_, _, _, _, _)
check_deferred_SkipsClosed(q, sb, wset, st, n) ==
    LET live == SelectSeq(q, LAMBDA x : x \notin closed)
        kept == SelectSeq(q, LAMBDA x : x \in closed)
    IN  IF ~(Len(live) > 0) THEN [q |-> kept, sb |-> sb, ok |-> TRUE, evals |-> n]
        ELSE LET p == Pop(live)
                 r == internal_apply_sidebar_status(p.w, sb, wset, st)
             IN  IF r.ok
                 THEN check_deferred_SkipsClosed(kept \o p.q, r.sb, wset, st, n + 1)
                 ELSE [q |-> kept \o p.q, sb |-> sb, ok |-> FALSE, evals |-> n]

\* check_deferred() on the list q and the flags sb: pop and evaluate until
\* the list is empty; an exception ends the loop with the rest still queued.
\* n counts the evaluations that returned.
RECURSIVE check_deferred(_, _, _, _, _)
check_deferred(q, sb, wset, st, n) ==
    IF ~(Len(q) > 0) THEN [q |-> q, sb |-> sb, ok |-> TRUE, evals |-> n]
    ELSE LET p == Pop(q)
             r == internal_apply_sidebar_status(p.w, sb, wset, st)
         IN  IF r.ok THEN check_deferred(p.q, r.sb, wset, st, n + 1)
             ELSE [q |-> p.q, sb |-> sb, ok |-> FALSE, evals |-> n]

\* apply_sidebar_status that evaluates its window and leaves the list alone
apply_sidebar_status_NoFlush(w, q, sb, wset, st, n) ==
    IF w = None THEN [q |-> q, sb |-> sb, ok |-> TRUE, evals |-> n]
    ELSE LET r == internal_apply_sidebar_status(w, sb, wset, st)
         IN  [q |-> q, sb |-> r.sb, ok |-> r.ok, evals |-> IF r.ok THEN n + 1 ELSE n]

\* apply_sidebar_status(window)
apply_sidebar_status(w, q, sb, wset, st, n) ==
    check_deferred(add_deferred(w, q), sb, wset, st, n)

\* lines 75-76: the loop of on_init over the windows of the views vs, from
\* view i on; an exception ends it
RECURSIVE ApplyEach(_, _, _, _, _, _)
ApplyEach(vs, i, q, sb, st, n) ==
    IF i > Len(vs) THEN [q |-> q, sb |-> sb, ok |-> TRUE, evals |-> n]
    ELSE LET r == apply_sidebar_status(vs[i], q, sb, window_settings, st, n)
         IN  IF r.ok THEN ApplyEach(vs, i + 1, r.q, r.sb, st, r.evals)
             ELSE r

\* the windows a callback was given
Given(w) == IF w = None THEN {} ELSE {w}

\* the windows in the list q
Range(q) == {q[i] : i \in DOMAIN q}

\* ------------------------------------------------------------------ Init
\* the module has just been loaded: the list is empty and SETTINGS is only
\* annotated, not bound
Init ==
    /\ DEFERRED_WINDOWS = <<>>
    /\ SETTINGS = "undefined"
    /\ views = [w \in Windows |-> 1]
    /\ folders = [w \in Windows |-> 0]
    /\ tabs_visible = [w \in Windows |-> TRUE]
    /\ window_settings = [w \in Windows |-> "absent"]
    /\ project_data = [w \in Windows |-> "none"]
    /\ sidebar_visible = [w \in Windows |-> FALSE]
    /\ closed = {}
    /\ last = [op |-> "load", ws |-> {}, ok |-> TRUE, evals |-> 0]

\* --------------------------------------------------------- host's actions
HostStep == [op |-> "host", ws |-> {}, ok |-> TRUE, evals |-> 0]

HostOpenView(w) ==
    /\ views[w] < MaxViews
    /\ views' = [views EXCEPT ![w] = @ + 1]
    /\ last' = HostStep
    /\ UNCHANGED <<plugin, folders, tabs_visible, window_settings,
                   project_data, sidebar_visible, closed>>

HostCloseView(w) ==
    /\ views[w] > 0
    /\ views' = [views EXCEPT ![w] = @ - 1]
    /\ last' = HostStep
    /\ UNCHANGED <<plugin, folders, tabs_visible, window_settings,
                   project_data, sidebar_visible, closed>>

\* the folders of a window are part of its project data
HostSetProject(w, pd, f) ==
    /\ pd = "none" => f = 0
    /\ <<pd, f>> # <<project_data[w], folders[w]>>
    /\ project_data' = [project_data EXCEPT ![w] = pd]
    /\ folders' = [folders EXCEPT ![w] = f]
    /\ last' = HostStep
    /\ UNCHANGED <<plugin, views, tabs_visible, window_settings,
                   sidebar_visible, closed>>

HostToggleTabs(w) ==
    /\ tabs_visible' = [tabs_visible EXCEPT ![w] = ~@]
    /\ last' = HostStep
    /\ UNCHANGED <<plugin, views, folders, window_settings,
                   project_data, sidebar_visible, closed>>

\* the user shows or hides the sidebar by hand
HostToggleSidebar(w) ==
    /\ sidebar_visible' = [sidebar_visible EXCEPT ![w] = ~@]
    /\ last' = HostStep
    /\ UNCHANGED <<plugin, host>>

\* the user edits the preference; the loaded Settings object is live
HostSetPreference(p) ==
    /\ SETTINGS # "undefined"
    /\ p # SETTINGS
    /\ SETTINGS' = p
    /\ last' = HostStep
    /\ UNCHANGED <<DEFERRED_WINDOWS, views, folders, tabs_visible, window_settings,
                   project_data, sidebar_visible, closed>>

\* the user closes a window, and its views with it.  What the host answers
\* about a closed window is not in the plugin's source: the model keeps the
\* answers it gave last.
HostCloseWindow(w) ==
    /\ w \notin closed
    /\ closed' = closed \cup {w}
    /\ views' = [views EXCEPT ![w] = 0]
    /\ last' = HostStep
    /\ UNCHANGED <<plugin, folders, tabs_visible, window_settings,
                   project_data, sidebar_visible>>

\* ------------------------------------------------------- plugin's handlers
\* a handler whose body is apply_sidebar_status(<window>)
ApplyNow(w) ==
    \E r \in {apply_sidebar_status(w, DEFERRED_WINDOWS, sidebar_visible, window_settings,
                                  SETTINGS, 0)} :
        /\ DEFERRED_WINDOWS' = r.q
        /\ sidebar_visible' = r.sb
        /\ last' = [op |-> "apply", ws |-> Given(w), ok |-> r.ok, evals |-> r.evals]
        /\ UNCHANGED <<SETTINGS, host>>

\* a deferring handler that also flushes
DeferOnly_Flushes(w) ==
    /\ Len(DEFERRED_WINDOWS) < MaxQueue
    /\ \E r \in {apply_sidebar_status(w, DEFERRED_WINDOWS, sidebar_visible, window_settings,
                                     SETTINGS, 0)} :
        /\ DEFERRED_WINDOWS' = r.q
        /\ sidebar_visible' = r.sb
        /\ last' = [op |-> "defer", ws |-> Given(w), ok |-> r.ok, evals |-> r.evals]
        /\ UNCHANGED <<SETTINGS, host>>

\* a handler whose body is add_deferred(<window>)
DeferOnly(w) ==
    /\ Len(DEFERRED_WINDOWS) < MaxQueue
    /\ DEFERRED_WINDOWS' = add_deferred(w, DEFERRED_WINDOWS)
    /\ last' = [op |-> "defer", ws |-> Given(w), ok |-> TRUE, evals |-> 0]
    /\ UNCHANGED <<SETTINGS, host, sidebar_visible>>

\* a handler whose body is check_deferred()
FlushOnly ==
    \E r \in {check_deferred(DEFERRED_WINDOWS, sidebar_visible, window_settings, SETTINGS, 0)} :
        /\ DEFERRED_WINDOWS' = r.q
        /\ sidebar_visible' = r.sb
        /\ last' = [op |-> "flush", ws |-> Range(DEFERRED_WINDOWS), ok |-> r.ok,
                    evals |-> r.evals]
        /\ UNCHANGED <<SETTINGS, host>>

\* on_init(views): vs[i] is views[i].window(), and p is what the loaded
\* Preferences hold; the host calls it once
on_init(vs, p) ==
    /\ SETTINGS = "undefined"
    /\ \E r \in {ApplyEach(vs, 1, DEFERRED_WINDOWS, sidebar_visible, p, 0)} :
        /\ SETTINGS' = p
        /\ DEFERRED_WINDOWS' = r.q
        /\ sidebar_visible' = r.sb
        /\ last' = [op |-> "init", ws |-> Range(vs) \ {None}, ok |-> r.ok,
                    evals |-> r.evals]
        /\ UNCHANGED host

on_new(w) == ApplyNow(w)
on_associate_buffer(w) == ApplyNow(w)
on_clone(w) == ApplyNow(w)
on_load(w) == ApplyNow(w)
on_reload(w) == ApplyNow(w)
on_pre_move(w) == DeferOnly(w)
on_post_move == FlushOnly
on_pre_close(w) == DeferOnly(w)
on_close == FlushOnly
on_activated(w) == ApplyNow(w)
on_deactivated(w) == ApplyNow(w)
on_new_project(w) == ApplyNow(w)
on_load_project(w) == ApplyNow(w)
on_post_save_project(w) == ApplyNow(w)
on_pre_close_project(w) == DeferOnly(w)

\* the enable command applying before it stores the override
EnableInWindow_AppliesFirst(w) ==
    \E r \in {apply_sidebar_status(w, DEFERRED_WINDOWS, sidebar_visible, window_settings,
                                  SETTINGS, 0)} :
        /\ window_settings' = [window_settings EXCEPT ![w] = "true"]
        /\ DEFERRED_WINDOWS' = r.q
        /\ sidebar_visible' = r.sb
        /\ last' = [op |-> "enable", ws |-> {w}, ok |-> r.ok, evals |-> r.evals]
        /\ UNCHANGED <<SETTINGS, views, folders, tabs_visible, project_data, closed>>

\* AutoSidebarEnableInWindow.run
EnableInWindow(w) ==
    \E wset \in {[window_settings EXCEPT ![w] = "true"]} :
    \E r \in {apply_sidebar_status(w, DEFERRED_WINDOWS, sidebar_visible, wset, SETTINGS, 0)} :
        /\ window_settings' = wset
        /\ DEFERRED_WINDOWS' = r.q
        /\ sidebar_visible' = r.sb
        /\ last' = [op |-> "enable", ws |-> {w}, ok |-> r.ok, evals |-> r.evals]
        /\ UNCHANGED <<SETTINGS, views, folders, tabs_visible, project_data, closed>>

\* the disable command hiding the sidebar at once
DisableInWindow_Hides(w) ==
    /\ window_settings' = [window_settings EXCEPT ![w] = "false"]
    /\ sidebar_visible' = [sidebar_visible EXCEPT ![w] = FALSE]
    /\ last' = [op |-> "disable", ws |-> {w}, ok |-> TRUE, evals |-> 0]
    /\ UNCHANGED <<plugin, views, folders, tabs_visible, project_data, closed>>

\* AutoSidebarDisableInWindow.run
DisableInWindow(w) ==
    /\ window_settings' = [window_settings EXCEPT ![w] = "false"]
    /\ last' = [op |-> "disable", ws |-> {w}, ok |-> TRUE, evals |-> 0]
    /\ UNCHANGED <<plugin, views, folders, tabs_visible, project_data,
                   sidebar_visible, closed>>

\* k copies of the window w
RECURSIVE Copies(_, _)
Copies(w, k) == IF k = 0 THEN <<>> ELSE Append(Copies(w, k - 1), w)

\* on_init is given the views that were loaded before the listener was made:
\* some of the views the windows have now, window by window
LoadedViews ==
    {Copies("w1", k1) \o Copies("w2", k2) : k1 \in 0..views["w1"], k2 \in 0..views["w2"]}

\* the host dispatches callbacks and commands only for windows that are open
HostViews ==
    \/ \E w \in ViewWindows \ closed : HostOpenView(w)
    \/ \E w \in ViewWindows \ closed : HostCloseView(w)

HostSettings ==
    \/ \E w \in ProjectWindows \ closed, pd \in ProjectValues, f \in 0..MaxFolders :
          HostSetProject(w, pd, f)
    \/ \E w \in TabWindows \ closed : HostToggleTabs(w)
    \/ \E w \in Windows \ closed : HostToggleSidebar(w)
    \/ \E p \in PreferenceValues : HostSetPreference(p)

Callbacks ==
    \/ \E vs \in LoadedViews, p \in PreferenceValues : on_init(vs, p)
    \/ \E w \in OptWindows \ closed : on_new(w)
    \/ \E w \in OptWindows \ closed : on_associate_buffer(w)
    \/ \E w \in OptWindows \ closed : on_clone(w)
    \/ \E w \in OptWindows \ closed : on_load(w)
    \/ \E w \in OptWindows \ closed : on_reload(w)
    \/ \E w \in OptWindows \ closed : on_pre_move(w)
    \/ on_post_move
    \/ \E w \in OptWindows \ closed : on_pre_close(w)
    \/ on_close
    \/ \E w \in OptWindows \ closed : on_activated(w)
    \/ \E w \in OptWindows \ closed : on_deactivated(w)
    \/ \E w \in Windows \ closed : on_new_project(w)
    \/ \E w \in Windows \ closed : on_load_project(w)
    \/ \E w \in Windows \ closed : on_post_save_project(w)
    \/ \E w \in Windows \ closed : on_pre_close_project(w)

Commands ==
    \/ \E w \in CommandWindows \ closed : EnableInWindow(w)
    \/ \E w \in CommandWindows \ closed : DisableInWindow(w)

Next ==
    \/ HostViews
    \/ HostSettings
    \/ Callbacks
    \/ Commands

Spec == Init /\ [][Next]_vars

\* the same plugin in a host whose user also closes windows, and leaves the
\* projects, the tab bars, the sidebars and the preference as they start
NextClose ==
    \/ HostViews
    \/ \E w \in CloseWindows : HostCloseWindow(w)
    \/ Callbacks
    \/ Commands

SpecClose == Init /\ [][NextClose]_vars

\* ---------------------------------------------------------------- claims
\* the step l ran check_deferred: a bare flush, an apply, the enable command,
\* or on_init given at least one view (every view on_init is given has a
\* window, so its list of views is empty exactly when l.ws is)
FlushRan(l) ==
    l.op \in {"apply", "flush", "enable"} \/ (l.op = "init" /\ l.ws # {})

\* ... and every check_deferred it ran returned
Flushed(l) == FlushRan(l) /\ l.ok

\* the windows a step evaluates when it returns: those queued before it and
\* those it is given
EvaluatedBy(q, l) == Range(q) \cup l.ws

\* the inputs of the policy as the specification names them
Ew(w) == window_settings[w] \in {"absent", "true"}
Ep(w) == project_data[w] \in {"none", "absent", "true"}
T(w) == tabs_visible[w]
P == SETTINGS = "true"
V(w) == views[w]
F(w) == folders[w]
PolicyFormula(w) == ((~T(w) \/ P) /\ V(w) > 1) \/ F(w) > 0

\* C1: every callback that evaluates the policy and returns leaves each
\* window it evaluated whose per-window and per-project flags are true or
\* absent with a sidebar flag of exactly ((not T or P) and V > 1) or F > 0,
\* whatever the flag was before.
C1_PolicyDecision ==
    [][Flushed(last') =>
         \A w \in EvaluatedBy(DEFERRED_WINDOWS, last') :
            (Ew(w)' /\ Ep(w)') => sidebar_visible'[w] = PolicyFormula(w)']_vars

\* C1 witness: V=2, F=0, T=true, P=true on an enabled window just evaluated:
\* the sidebar is shown.
C1_Witness ==
    /\ last.op = "apply" /\ last.ok /\ last.ws = {"w1"}
    /\ Ew("w1") /\ Ep("w1")
    /\ V("w1") = 2 /\ F("w1") = 0 /\ T("w1") /\ P
    /\ sidebar_visible["w1"]

\* C2 as stated: after an evaluation of a window whose per-window or
\* per-project flag is false, the window's sidebar is hidden.
C2_HiddenWhenDisabled ==
    Flushed(last) =>
        \A w \in last.ws : (~Ew(w) \/ ~Ep(w)) => sidebar_visible[w] = FALSE

\* C2 amended: an evaluation of a window whose per-window or per-project
\* flag is false returns without setting the flag: the window's sidebar flag
\* keeps the value it had before the evaluation.
C2_UntouchedWhenDisabled ==
    [][FlushRan(last') =>
         \A w \in EvaluatedBy(DEFERRED_WINDOWS, last') :
            (~Ew(w)' \/ ~Ep(w)') => sidebar_visible'[w] = sidebar_visible[w]]_vars

\* C2 witness: a window disabled by its own flag has just been evaluated and
\* its sidebar is still shown, with one view and no folder.
C2_Witness ==
    /\ last.op = "apply" /\ last.ok /\ last.ws = {"w1"} /\ last.evals = 1
    /\ ~Ew("w1")
    /\ V("w1") <= 1 /\ F("w1") = 0
    /\ sidebar_visible["w1"]

\* C3: after any flush that completes (a bare flush, or the flush inside an
\* apply, inside on_init or inside the enable command) the deferred list is
\* empty.
C3_FlushDrains ==
    Flushed(last) => DEFERRED_WINDOWS = <<>>

\* C3 witness: a bare flush found two entries queued, evaluated both and
\* left the list empty.
C3_Witness ==
    /\ last.op = "flush" /\ last.ok /\ last.evals = 2 /\ last.ws = {"w1", "w2"}
    /\ DEFERRED_WINDOWS = <<>>

\* C4: an enqueue-only callback given no window leaves the list as it is;
\* given a window it appends exactly that window at the end, also when the
\* window is already in the list; either way it raises nothing and changes
\* no window's sidebar flag.
C4_Enqueue ==
    [][last'.op = "defer" =>
         /\ last'.ok
         /\ sidebar_visible' = sidebar_visible
         /\ last'.ws = {} => DEFERRED_WINDOWS' = DEFERRED_WINDOWS
         /\ \A w \in last'.ws : DEFERRED_WINDOWS' = DEFERRED_WINDOWS \o <<w>>]_vars

\* C4 witness: a window already queued has been enqueued once more.
C4_Witness ==
    /\ last.op = "defer" /\ last.ws = {"w1"}
    /\ DEFERRED_WINDOWS = <<"w1", "w1">>

\* C5: in every reachable state and for every window, evaluating the policy
\* a second time right after a first evaluation that returned, with nothing
\* changed in between, returns too and leaves the sidebar flags as the first
\* evaluation left them.
C5_Idempotent ==
    \A w \in Windows :
        LET once == internal_apply_sidebar_status(w, sidebar_visible, window_settings,
                                                  SETTINGS)
            twice == internal_apply_sidebar_status(w, once.sb, window_settings, SETTINGS)
        IN  once.ok => (twice.ok /\ twice.sb = once.sb)

\* C5 witness: one flush has evaluated the enabled window w1 twice in
\* succession (it was queued twice) and its sidebar is shown.
C5_Witness ==
    /\ last.op = "flush" /\ last.ok /\ last.evals = 2 /\ last.ws = {"w1"}
    /\ Ew("w1") /\ Ep("w1")
    /\ sidebar_visible["w1"] /\ PolicyFormula("w1")

\* C6: a pre-move, pre-close or pre-close-project callback given a window
\* makes the list exactly one entry longer, that window last, evaluates no
\* policy, and leaves every window's sidebar flag and state unchanged.
C6_EnqueueOnly ==
    [][(last'.op = "defer" /\ last'.ws # {}) =>
         /\ Len(DEFERRED_WINDOWS') = Len(DEFERRED_WINDOWS) + 1
         /\ SubSeq(DEFERRED_WINDOWS', 1, Len(DEFERRED_WINDOWS)) = DEFERRED_WINDOWS
         /\ last'.ws = {DEFERRED_WINDOWS'[Len(DEFERRED_WINDOWS')]}
         /\ last'.evals = 0
         /\ \A w \in Windows : sidebar_visible'[w] = sidebar_visible[w]
         /\ UNCHANGED <<SETTINGS, host>>]_vars

\* C6 witness: w1 has just been enqueued and its sidebar flag still differs
\* from what the policy would decide now.
C6_Witness ==
    /\ last.op = "defer" /\ last.ws = {"w1"}
    /\ DEFERRED_WINDOWS = <<"w1">>
    /\ Ew("w1") /\ Ep("w1") /\ SETTINGS # "undefined"
    /\ sidebar_visible["w1"] # PolicyFormula("w1")

\* C7: after an apply-immediately callback (on_init included) given a
\* window returns, the list is empty and, if the window's flags are true or
\* absent, the window has the sidebar flag the policy decides for its state
\* at that moment.
C7_ApplyIsEnqueueThenFlush ==
    (last.op \in {"apply", "init"} /\ last.ok) =>
        \A w \in last.ws :
            /\ DEFERRED_WINDOWS = <<>>
            /\ (Ew(w) /\ Ep(w)) => sidebar_visible[w] = PolicyFormula(w)

\* C7 witness: an apply on w1 found another entry pending, evaluated both and
\* left the list empty with w1's sidebar shown as decided.
C7_Witness ==
    /\ last.op = "apply" /\ last.ok /\ last.ws = {"w1"} /\ last.evals = 2
    /\ DEFERRED_WINDOWS = <<>>
    /\ Ew("w1") /\ Ep("w1") /\ F("w1") = 0 /\ V("w1") = 2 /\ ~T("w1")
    /\ sidebar_visible["w1"]

C9_EnableReapplies ==
    (last.op = "enable" /\ last.ok) =>
        \A w \in last.ws :
            /\ window_settings[w] = "true"
            /\ DEFERRED_WINDOWS = <<>>
            /\ Ep(w) => sidebar_visible[w] = PolicyFormula(w)

\* C9 witness: the enable command has returned on a window with a folder and
\* the sidebar is shown.
C9_Witness ==
    /\ last.op = "enable" /\ last.ok /\ last.ws = {"w1"}
    /\ window_settings["w1"] = "true" /\ Ep("w1")
    /\ F("w1") = 1 /\ V("w1") = 0
    /\ sidebar_visible["w1"]

\* C10: the disable command stores false as the window's override and
\* changes nothing else: not the window's sidebar flag, not another window's
\* override or state, not the project data, not the deferred list.
C10_DisableOnlyStores ==
    [][last'.op = "disable" =>
         \A w \in last'.ws :
            /\ window_settings' = [window_settings EXCEPT ![w] = "false"]
            /\ sidebar_visible' = sidebar_visible
            /\ UNCHANGED <<DEFERRED_WINDOWS, SETTINGS, views, folders, tabs_visible,
                           project_data>>]_vars

\* C10 witness: the override has just been stored false and the sidebar is
\* still shown.
C10_Witness ==
    /\ last.op = "disable" /\ last.ws = {"w1"}
    /\ window_settings["w1"] = "false"
    /\ sidebar_visible["w1"]

\* the number of entries the list q holds for the window w
Count(q, w) == Cardinality({i \in DOMAIN q : q[i] = w})

\* C11: a window queued by a pre-close or pre-move callback is not evaluated
\* before a post-event: once on_init has run, every step that pops an entry
\* of the list and evaluates its window is a bare flush (on_close or
\* on_post_move), whatever callbacks are dispatched in between.
C11_DeferredUntilPostEvent ==
    [][\A w \in Windows :
          /\ SETTINGS # "undefined"
          /\ Count(DEFERRED_WINDOWS', w) < Count(DEFERRED_WINDOWS, w)
          /\ last'.ok
          => last'.op = "flush"]_vars

\* the lists that hold the entries of the list q in some order
Orderings(q) ==
    {[i \in DOMAIN q |-> q[f[i]]] :
        f \in {g \in [DOMAIN q -> DOMAIN q] : \A i, j \in DOMAIN q : g[i] = g[j] => i = j}}

\* the sidebar flags check_deferred() leaves when it is run on the list q in
\* the current state
FlagsAfterDrain(q) ==
    check_deferred(q, sidebar_visible, window_settings, SETTINGS, 0).sb

\* C12: in every reachable state, draining the deferred list in any other
\* order leaves every window's sidebar flag as draining it last-in-first-out
\* does.
C12_OrderInsignificant ==
    \A q \in Orderings(DEFERRED_WINDOWS) :
        FlagsAfterDrain(q) = FlagsAfterDrain(DEFERRED_WINDOWS)

\* the lists check_deferred() can be run on in the current state: the list as
\* a bare flush finds it, and as an apply finds it after enqueueing a window
DrainedLists ==
    {DEFERRED_WINDOWS} \cup {add_deferred(w, DEFERRED_WINDOWS) : w \in Windows}

\* the list q with one entry left for each window: the one nearest the end,
\* which is the one popped first
RECURSIVE WithoutDuplicates(_)
WithoutDuplicates(q) ==
    IF q = <<>> THEN <<>>
    ELSE LET p == Pop(q)
         IN  Append(WithoutDuplicates(SelectSeq(p.q, LAMBDA x : x # p.w)), p.w)

\* C13: in every reachable state and for every list a flush can find,
\* duplicates included, check_deferred() run on the list leaves every
\* window's sidebar flag as it leaves it when run on the list with the
\* duplicates removed, and when it returns it has evaluated the policy once
\* for each entry.
C13_DuplicatesHarmless ==
    \A q \in DrainedLists :
        LET r == check_deferred(q, sidebar_visible, window_settings, SETTINGS, 0)
        IN  /\ r.sb = FlagsAfterDrain(WithoutDuplicates(q))
            /\ r.ok => r.evals = Len(q)

\* C13 witness: an apply on w1 found w1 queued twice already, evaluated it
\* three times in one drain, and w1's sidebar is shown as the policy decides.
C13_Witness ==
    /\ last.op = "apply" /\ last.ok /\ last.ws = {"w1"} /\ last.evals = 3
    /\ Ew("w1") /\ Ep("w1")
    /\ sidebar_visible["w1"] /\ PolicyFormula("w1")

\* the number of entries check_deferred() starts with in the step that ends
\* with the record l, when the list was q before the step
EntriesAtStart(q, l) ==
    IF l.op = "flush" THEN Len(q) ELSE Len(q) + Cardinality(l.ws)

\* C14: every step that runs check_deferred() once (a bare flush, an apply,
\* the enable command) returns, having evaluated the policy exactly once for
\* each of the n entries it started with, and leaves the list empty.
C14_FlushDrainsExactly ==
    [][last'.op \in {"flush", "apply", "enable"} =>
         /\ last'.ok
         /\ last'.evals = EntriesAtStart(DEFERRED_WINDOWS, last')
         /\ DEFERRED_WINDOWS' = <<>>]_vars

\* C14 witness: a bare flush evaluated one window, then raised on the next
\* and did not return.
C14_Witness ==
    /\ last.op = "flush" /\ ~last.ok /\ last.evals = 1

\* C15: no callback and no command changes the sidebar flag of a window
\* whose per-window flag or per-project flag is false when the step
\* evaluates: whatever the step is given and whatever is queued, such a
\* window keeps the flag it had.
C15_DisabledIsHardOverride ==
    [][last'.op # "host" =>
         \A w \in Windows :
            (~Ew(w)' \/ ~Ep(w)') => sidebar_visible'[w] = sidebar_visible[w]]_vars

\* C15 witness: w1, disabled by its project, has been evaluated with a
\* folder open and its sidebar is still hidden.
C15_Witness ==
    /\ last.op = "apply" /\ last.ok /\ last.ws = {"w1"} /\ last.evals = 1
    /\ Ew("w1") /\ ~Ep("w1")
    /\ F("w1") = 1
    /\ ~sidebar_visible["w1"]

\* C16 as stated: the entry of a window that has closed (queued by
\* on_pre_close_project, or by any other enqueue-only callback) is abandoned:
\* no later step pops it.
C16_AbandonedWhenClosed ==
    [][\A w \in closed :
          Count(DEFERRED_WINDOWS', w) >= Count(DEFERRED_WINDOWS, w)]_vars

\* C16 amended: the entry of a window that has closed stays in the list only
\* until the next flush: a step that runs no flush leaves it queued, and
\* every step that runs a flush and returns, whatever callback it is and
\* whatever window it is given, has popped every entry, those of closed
\* windows included, and evaluated the policy for each.
C16_ClosedWindowStillFlushed ==
    [][\A w \in closed \cap Range(DEFERRED_WINDOWS) :
          /\ ~FlushRan(last') =>
                 Count(DEFERRED_WINDOWS', w) >= Count(DEFERRED_WINDOWS, w)
          /\ Flushed(last') =>
                 /\ Count(DEFERRED_WINDOWS', w) = 0
                 /\ last'.evals >= Len(DEFERRED_WINDOWS)]_vars

\* C16 witness: w2 was queued, then closed; a bare flush has popped and
\* evaluated it.
C16_Witness ==
    /\ "w2" \in closed
    /\ last.op = "flush" /\ last.ok /\ last.ws = {"w2"} /\ last.evals = 1
    /\ DEFERRED_WINDOWS = <<>>

\* C17: no policy evaluation ever fails: SETTINGS is bound whenever an
\* evaluation reads it, so every callback and command returns, and no flush
\* stops part-way with a popped window unevaluated.
C17_NoEvaluationFails == last.ok

\* C17 witness: a bare flush popped a window, raised while evaluating it, and
\* left the list non-empty.
C17_Witness ==
    /\ last.op = "flush" /\ ~last.ok
    /\ DEFERRED_WINDOWS # <<>>

\* C18: an apply-immediately callback given no window raises nothing and
\* enqueues nothing, but flushes: it evaluates exactly the windows that were
\* pending, once per entry, and returns with the list empty.
C18_NullWindowStillFlushes ==
    [][(last'.op = "apply" /\ last'.ws = {}) =>
         /\ last'.ok
         /\ last'.evals = Len(DEFERRED_WINDOWS)
         /\ DEFERRED_WINDOWS' = <<>>]_vars

\* C18 witness: an apply-immediately callback given no window has raised
\* while it evaluated a pending window.
C18_Witness ==
    /\ last.op = "apply" /\ last.ws = {} /\ ~last.ok

\* C19: between callbacks every entry of the deferred list is a window, and
\* the list is empty after every step that runs a flush (an
\* apply-immediately callback, on_post_move, on_close, the enable command;
\* on_init given no view runs none and is not counted), so that it is
\* non-empty only after enqueue-only callbacks since the last flush.
C19_QueueEmptyAfterFlushingEvents ==
    /\ None \notin Range(DEFERRED_WINDOWS)
    /\ FlushRan(last) => DEFERRED_WINDOWS = <<>>

\* C19 witness: an apply-immediately callback has ended with the list still
\* holding an entry.
C19_Witness ==
    /\ last.op = "apply" /\ last.ws # {}
    /\ DEFERRED_WINDOWS # <<>>
====
